---- MODULE Spec2Model ----
(***************************************************************************)
(* Model of the two spreadsheet exporters of egcs-erd:                     *)
(*   - generateChartDBJson (src/appscript.js), the ChartDB JSON exporter;  *)
(*   - exportDBML (src/unnamed/part_000), the flat DBML exporter.          *)
(* JavaScript strings are sequences of one-character strings, so that      *)
(* trim, toLowerCase, split, includes and startsWith are computed the way  *)
(* the code computes them.  A cell value is a record [k, s]: k is the      *)
(* JavaScript type ("str", "num", "undef") and s the text String(v) gives. *)
(***************************************************************************)
EXTENDS Integers, Sequences, FiniteSets, TLC

\* ------------------------------------------------------------------ bounds
\* the number of rows of a spreadsheet beyond the fixed first rows of its sheets
MaxRows == 3
\* the number of export runs of one process
MaxRuns == 2
\* the number of rows beyond the fixed first rows of a spreadsheet that is
\* exported more than once
MaxRerunRows == 2

\* ------------------------------------------------------- JavaScript values
Str(s) == [k |-> "str", s |-> s]
Num(s) == [k |-> "num", s |-> s]
Undefined == [k |-> "undef", s |-> <<"u","n","d","e","f","i","n","e","d">>]
Empty == Str(<<>>)

\* String(v)
JsString(v) == v.s

\* the truthiness of v in `if (v)` and `v || x`
Truthy(v) ==
  CASE v.k = "str" -> v.s # <<>>
    [] v.k = "num" -> v.s # <<"0">>
    [] OTHER -> FALSE

\* v || ''
OrEmpty(v) == IF Truthy(v) THEN v ELSE Empty

\* row[k] of a JavaScript array (k counts from 0)
Cell(row, k) == IF k + 1 <= Len(row) THEN row[k + 1] ELSE Undefined

\* ------------------------------------------------------ JavaScript strings
UpperChars ==
  <<"A","B","C","D","E","F","G","H","I","J","K","L","M",
    "N","O","P","Q","R","S","T","U","V","W","X","Y","Z">>
LowerChars ==
  <<"a","b","c","d","e","f","g","h","i","j","k","l","m",
    "n","o","p","q","r","s","t","u","v","w","x","y","z">>
DigitChars == <<"0","1","2","3","4","5","6","7","8","9">>
WhiteSpace == {" ", "\t", "\n"}

IsUpper(c) == \E n \in 1..26 : UpperChars[n] = c
IsLower(c) == \E n \in 1..26 : LowerChars[n] = c
IsDigit(c) == \E n \in 1..10 : DigitChars[n] = c

LowerChar(c) ==
  IF IsUpper(c) THEN LowerChars[CHOOSE n \in 1..26 : UpperChars[n] = c] ELSE c
UpperChar(c) ==
  IF IsLower(c) THEN UpperChars[CHOOSE n \in 1..26 : LowerChars[n] = c] ELSE c

toLowerCase(s) == [n \in 1..Len(s) |-> LowerChar(s[n])]
toUpperCase(s) == [n \in 1..Len(s) |-> UpperChar(s[n])]

RECURSIVE trimStart(_)
trimStart(s) ==
  IF s # <<>> /\ Head(s) \in WhiteSpace THEN trimStart(Tail(s)) ELSE s

RECURSIVE trimEnd(_)
trimEnd(s) ==
  IF s # <<>> /\ s[Len(s)] \in WhiteSpace
  THEN trimEnd(SubSeq(s, 1, Len(s) - 1))
  ELSE s

trim(s) == trimEnd(trimStart(s))

\* s.startsWith(p)
startsWith(s, p) == Len(p) <= Len(s) /\ SubSeq(s, 1, Len(p)) = p

\* s.includes(p)
includes(s, p) ==
  \E n \in 1..(Len(s) - Len(p) + 1) : SubSeq(s, n, n + Len(p) - 1) = p

\* s.split(c) for a one-character separator c
RECURSIVE splitFrom(_, _, _)
splitFrom(s, c, cur) ==
  IF s = <<>> THEN <<cur>>
  ELSE IF Head(s) = c THEN <<cur>> \o splitFrom(Tail(s), c, <<>>)
  ELSE splitFrom(Tail(s), c, Append(cur, Head(s)))

split(s, c) == splitFrom(s, c, <<>>)

\* parts.join(sep), parts a sequence of strings
RECURSIVE join(_, _)
join(parts, sep) ==
  IF parts = <<>> THEN <<>>
  ELSE IF Len(parts) = 1 THEN parts[1]
  ELSE parts[1] \o sep \o join(Tail(parts), sep)

\* the concatenation of a sequence of strings
RECURSIVE Concat(_)
Concat(parts) == IF parts = <<>> THEN <<>> ELSE Head(parts) \o Concat(Tail(parts))

\* parseInt of a string of decimal digits
RECURSIVE parseInt(_)
parseInt(s) ==
  IF s = <<>> THEN 0
  ELSE 10 * parseInt(SubSeq(s, 1, Len(s) - 1))
       + (CHOOSE n \in 1..10 : DigitChars[n] = s[Len(s)]) - 1

\* the length of the run of digits of s that starts at position p
RECURSIVE digitRun(_, _)
digitRun(s, p) ==
  IF p <= Len(s) /\ IsDigit(s[p]) THEN 1 + digitRun(s, p + 1) ELSE 0

\* rawType.match(/\((\d+),(\d+)\)/): <<>> when there is no match, else the
\* two captured groups of the leftmost match
precisionScaleAt(s, p) ==
  LET d1 == digitRun(s, p + 1)
      q == p + 1 + d1
      d2 == digitRun(s, q + 1)
      r == q + 1 + d2
  IN  IF /\ s[p] = "("
         /\ d1 >= 1
         /\ q <= Len(s) /\ s[q] = ","
         /\ d2 >= 1
         /\ r <= Len(s) /\ s[r] = ")"
      THEN <<SubSeq(s, p + 1, q - 1), SubSeq(s, q + 1, r - 1)>>
      ELSE <<>>

matchPrecisionScale(s) ==
  LET hits == {p \in 1..Len(s) : precisionScaleAt(s, p) # <<>>}
  IN  IF hits = {} THEN <<>>
      ELSE precisionScaleAt(s, CHOOSE p \in hits : \A q \in hits : p <= q)

\* ------------------------------------------------------------ type mappers
\* mapTypeExact of the DBML exporter
mapTypeExact(type) ==
  LET t == toLowerCase(type)
  IN  IF type = <<>> THEN <<"v","a","r","c","h","a","r">>
      ELSE IF startsWith(t, <<"b","i","g","i","n","t">>) THEN <<"b","i","g","i","n","t">>
      ELSE IF startsWith(t, <<"i","n","t">>) THEN <<"i","n","t">>
      ELSE IF startsWith(t, <<"v","a","r","c","h","a","r">>) THEN <<"v","a","r","c","h","a","r">>
      ELSE IF startsWith(t, <<"t","e","x","t">>) THEN <<"t","e","x","t">>
      ELSE IF startsWith(t, <<"d","a","t","e">>) THEN <<"d","a","t","e">>
      ELSE IF \/ startsWith(t, <<"t","i","m","e","s","t","a","m","p">>)
              \/ startsWith(t, <<"d","a","t","e","t","i","m","e">>)
           THEN <<"t","i","m","e","s","t","a","m","p">>
      ELSE IF \/ startsWith(t, <<"b","o","o","l","e","a","n">>)
              \/ startsWith(t, <<"b","o","o","l">>)
           THEN <<"b","o","o","l","e","a","n">>
      ELSE IF \/ startsWith(t, <<"d","e","c","i","m","a","l">>)
              \/ startsWith(t, <<"n","u","m","e","r","i","c">>)
           THEN t
      ELSE <<"v","a","r","c","h","a","r">>

\* mapTypeToChartDB of the JSON exporter.  The result is the type object:
\* fieldAttributes and usageLevel are <<>> when the object has no such key.
TypeObj(id, name, attrs, usage) ==
  [id |-> id, name |-> name, fieldAttributes |-> attrs, usageLevel |-> usage]

mapTypeToChartDB(rawTypeIn) ==
  LET rawType == IF rawTypeIn = <<>> THEN <<"v","a","r","c","h","a","r">> ELSE rawTypeIn
      lowerType == trim(toLowerCase(rawType))
      match == matchPrecisionScale(rawType)
      prec == IF match # <<>> THEN parseInt(match[1]) ELSE 10
      scale == IF match # <<>> THEN parseInt(match[2]) ELSE 2
      base == split(lowerType, "(")[1]
  IN  IF \/ startsWith(lowerType, <<"n","u","m","e","r","i","c">>)
         \/ startsWith(lowerType, <<"d","e","c","i","m","a","l">>)
      THEN TypeObj(<<"n","u","m","e","r","i","c">>, rawType,
                   <<[precision |-> [max |-> 999, min |-> 1, default |-> prec],
                      scale |-> [max |-> 999, min |-> 0, default |-> scale]]>>,
                   <<>>)
      ELSE IF includes(lowerType, <<"c","h","a","r">>) \/ lowerType = <<"t","e","x","t">>
      THEN TypeObj(base, rawType, <<>>, <<1>>)
      ELSE IF lowerType \in {<<"b","i","g","i","n","t">>, <<"i","n","t","e","g","e","r">>,
                             <<"i","n","t">>, <<"s","m","a","l","l","i","n","t">>}
      THEN TypeObj(IF lowerType = <<"i","n","t">> THEN <<"i","n","t","e","g","e","r">>
                                                 ELSE lowerType,
                   lowerType, <<>>, <<>>)
      ELSE IF includes(lowerType, <<"t","i","m","e","s","t","a","m","p">>)
      THEN TypeObj(<<"t","i","m","e","s","t","a","m","p">>,
                   <<"t","i","m","e","s","t","a","m","p"," ","w","i","t","h"," ",
                     "t","i","m","e"," ","z","o","n","e">>, <<>>, <<>>)
      ELSE IF lowerType = <<"m","o","n","e","y">>
      THEN TypeObj(<<"m","o","n","e","y">>, <<"m","o","n","e","y">>, <<>>, <<>>)
      ELSE IF lowerType = <<"b","o","o","l","e","a","n">> \/ lowerType = <<"b","o","o","l">>
      THEN TypeObj(<<"b","o","o","l","e","a","n">>, <<"b","o","o","l","e","a","n">>,
                   <<>>, <<>>)
      ELSE TypeObj(IF base # <<>> THEN base ELSE <<"v","a","r","c","h","a","r">>,
                   rawType, <<>>, <<>>)

\* String(n) for a natural number n
RECURSIVE numToStr(_)
numToStr(n) ==
  IF n < 10 THEN <<DigitChars[n + 1]>>
  ELSE numToStr(n \div 10) \o <<DigitChars[(n % 10) + 1]>>

\* --------------------------------------------------------------- constants
\* CONFIG
tableWidth == 450
spacingX == 500
spacingY == 60
tablesPerRow == 5

\* the background getBackgrounds() reports for a cell with no fill
White == "#ffffff"
\* NOW_ISO and NOW_EPOCH are sampled once when the script loads
NOW_ISO == "NOW_ISO"
NOW_EPOCH == "NOW_EPOCH"

\* ss.getName()
SpreadsheetName == <<"E","G","C","S">>

\* ------------------------------------------------------------------- state
VARIABLES
  ss,               \* the spreadsheet: its sheets, in tab order
  menu,             \* the menu item the user picked: "json" or "dbml"
  pc,               \* where the running exporter is
  sheetIdx,         \* the sheet sheets.forEach is at (from 1)
  i,                \* the row index of the running scan (from 1)
  globalIdCounter,  \* appscript.js globals
  tables,
  relationships,
  customTypes,
  areas,
  tableMap,
  areaX,            \* locals of generateChartDBJson
  processedSheets,
  output,
  currentTable,     \* locals of parseTableSheet; <<>> is null
  layoutIndex,
  currentEnum,      \* local of parseEnumSheet; <<>> is null
  console,          \* what console.warn has printed
  issued,           \* every value getNextId has returned in this run, in order
  dbTables,         \* part_000: tables, a Map kept as a sequence of entries
  enumsMap,         \* part_000: enumsMap, a Map kept as a sequence of entries
  enumScan,         \* part_000: currentEnum and values of the enum loop
  table,            \* part_000: the local table of the sheet loop; <<>> is null
  dbml,             \* part_000: the DBML text; <<>> before it is built
  rawType,          \* the type token handed to the two type mappers
  chartDbType,      \* what mapTypeToChartDB returned for it; <<>> before the call
  dbmlType,         \* what mapTypeExact returned for it; <<>> before the call
  runNo,            \* the number of the export run of this process (from 1)
  previous          \* what the run before this one left behind; <<>> in the first run

jsonVars ==
  <<globalIdCounter, tables, relationships, customTypes, areas, tableMap, areaX,
    processedSheets, output, currentTable, layoutIndex, currentEnum, console, issued>>
dbmlVars == <<dbTables, enumsMap, enumScan, table, dbml>>
typeVars == <<rawType, chartDbType, dbmlType>>
runVars == <<runNo, previous>>
vars == <<ss, menu, pc, sheetIdx, i, jsonVars, dbmlVars, typeVars, runVars>>

\* ------------------------------------------------------ the JSON exporter
tableKey(schema, tableName) == schema \o <<".">> \o tableName

\* getNextId as it would be with the increment forgotten
getNextIdNoIncrement(counter) == [id |-> Str(numToStr(counter)), counter |-> counter]

\* getNextId: the value returned and the counter after the call
getNextId(counter) == [id |-> Str(numToStr(counter)), counter |-> counter + 1]

isHeaderRow(row) ==
  LET s == toLowerCase(join([n \in 1..Len(row) |->
                               IF row[n].k = "undef" THEN <<>> ELSE JsString(row[n])],
                            <<" ">>))
  IN  \/ includes(s, <<"l","o","g","i","c","a","l"," ","n","a","m","e">>)
      \/ includes(s, <<"f","i","e","l","d"," ","t","y","p","e">>)

\* m.set(k, v) on a Map kept as a function
MapSet(m, k, v) == [x \in DOMAIN m \cup {k} |-> IF x = k THEN v ELSE m[x]]
EmptyMap == [x \in {} |-> 0]

\* saveTable without its primary-key index (lines 317-328 left out)
saveTableWithoutIndex(tableObj, counter) ==
  [table |-> tableObj, counter |-> counter, ids |-> <<>>]

\* saveTable: the table as pushed to tables, and the counter after it
saveTable(tableObj, counter) ==
  LET pkFields == SelectSeq(tableObj.fields, LAMBDA f : f.primaryKey)
      pkIds == [n \in 1..Len(pkFields) |-> pkFields[n].id]
      g == getNextId(counter)
  IN  IF Len(pkFields) > 0
      THEN [table |-> [tableObj EXCEPT !.indexes =
                         Append(@, [id |-> g.id,
                                    name |-> tableObj.name \o <<"_","p","k","e","y">>,
                                    unique |-> TRUE,
                                    fieldIds |-> pkIds,
                                    createdAt |-> NOW_EPOCH,
                                    isPrimaryKey |-> TRUE])],
            counter |-> g.counter,
            ids |-> <<g.id>>]
      ELSE [table |-> tableObj, counter |-> counter, ids |-> <<>>]

\* the foreign-key intent parseTableSheet stores for a relation cell: <<>> when
\* it stores none
rawRelationship(relationRaw, fieldId) ==
  LET parts == split(relationRaw, ",")
      target == split(trim(parts[2]), ".")
  IN  IF /\ relationRaw # <<>>
         /\ includes(toLowerCase(relationRaw),
                     <<"f","o","r","e","i","g","n","k","e","y">>)
         /\ Len(parts) > 1
      THEN <<[sourceFieldId |-> fieldId,
              targetTableName |-> trim(target[1]),
              targetFieldName |->
                trim(IF Len(target) > 1 THEN target[2] ELSE <<"i","d">>)]>>
      ELSE <<>>

\* the field object parseTableSheet builds from a row whose first cell is a string
fieldObj(row, fieldId) ==
  LET fieldName == JsString(Cell(row, 0))
      optionalFlag == toUpperCase(JsString(Cell(row, 1)))
      fieldTypeRaw == JsString(Cell(row, 2))
      description == OrEmpty(Cell(row, 5))
      isRequired == includes(optionalFlag, <<"N">>)
      isPk == toLowerCase(fieldName) = <<"i","d">>
  IN  [id |-> fieldId,
       name |-> fieldName,
       type |-> mapTypeToChartDB(fieldTypeRaw),
       primaryKey |-> isPk,
       unique |-> isPk,
       nullable |-> ~isRequired /\ ~isPk,
       increment |-> FALSE,
       default |-> <<>>,
       comment |-> description,
       createdAt |-> NOW_EPOCH]

\* the rows of the sheet the scan is at
data == ss[sheetIdx].data

\* isEnumSheet of generateChartDBJson
isEnumSheet(sheet) == includes(toLowerCase(sheet.name), <<"e","n","u","m">>)

\* generateChartDBJson without line 43: the tables of the run before stay
generateChartDBJsonKeepsTables ==
  /\ pc = "idle"
  /\ menu = "json"
  /\ globalIdCounter' = 1
  /\ relationships' = <<>>
  /\ customTypes' = <<>>
  /\ areas' = <<>>
  /\ tableMap' = EmptyMap
  /\ areaX' = 0
  /\ processedSheets' = <<>>
  /\ sheetIdx' = 1
  /\ issued' = <<>>
  /\ pc' = "forEachSheet"
  /\ UNCHANGED <<typeVars, runVars, ss, menu, i, tables, output, currentTable, layoutIndex,
                 currentEnum, console, dbmlVars>>

\* generateChartDBJson, lines 37-50: reset the globals and start the first pass
generateChartDBJson ==
  /\ pc = "idle"
  /\ menu = "json"
  /\ globalIdCounter' = 1
  /\ tables' = <<>>
  /\ relationships' = <<>>
  /\ customTypes' = <<>>
  /\ areas' = <<>>
  /\ tableMap' = EmptyMap
  /\ areaX' = 0
  /\ processedSheets' = <<>>
  /\ sheetIdx' = 1
  /\ issued' = <<>>
  /\ pc' = "forEachSheet"
  /\ UNCHANGED <<typeVars, runVars, ss, menu, i, output, currentTable, layoutIndex, currentEnum, console,
                 dbmlVars>>

\* sheets.forEach: a tab with no color that is not an enum sheet is skipped
SkipSheet ==
  /\ pc = "forEachSheet"
  /\ sheetIdx <= Len(ss)
  /\ ss[sheetIdx].tabColor = <<>> /\ ~isEnumSheet(ss[sheetIdx])
  /\ sheetIdx' = sheetIdx + 1
  /\ UNCHANGED <<typeVars, runVars, ss, menu, pc, i, jsonVars, dbmlVars>>

\* sheets.forEach: an enum sheet goes to parseEnumSheet
BeginEnumSheet ==
  /\ pc = "forEachSheet"
  /\ sheetIdx <= Len(ss)
  /\ isEnumSheet(ss[sheetIdx])
  /\ processedSheets' = Append(processedSheets, ss[sheetIdx].name)
  /\ currentEnum' = <<>>
  /\ i' = 1
  /\ pc' = "parseEnumSheet"
  /\ UNCHANGED <<typeVars, runVars, ss, menu, sheetIdx, globalIdCounter, tables, relationships, customTypes,
                 areas, tableMap, areaX, output, currentTable, layoutIndex, console,
                 issued, dbmlVars>>

\* sheets.forEach: any other sheet gets an area and goes to parseTableSheet
BeginTableSheet ==
  /\ pc = "forEachSheet"
  /\ sheetIdx <= Len(ss)
  /\ ~isEnumSheet(ss[sheetIdx])
  /\ ss[sheetIdx].tabColor # <<>>
  /\ LET g == getNextId(globalIdCounter)
     IN  /\ areas' = Append(areas, [id |-> g.id,
                                    name |-> ss[sheetIdx].name,
                                    color |-> ss[sheetIdx].tabColor[1],
                                    x |-> areaX,
                                    y |-> 0,
                                    width |-> tableWidth * 2,
                                    height |-> 2000,
                                    createdAt |-> NOW_EPOCH])
         /\ globalIdCounter' = g.counter
         /\ issued' = Append(issued, g.id)
  /\ processedSheets' = Append(processedSheets, ss[sheetIdx].name)
  /\ currentTable' = <<>>
  /\ layoutIndex' = 0
  /\ i' = 1
  /\ pc' = "parseTableSheet"
  /\ UNCHANGED <<typeVars, runVars, ss, menu, sheetIdx, tables, relationships, customTypes, tableMap, areaX,
                 output, currentEnum, console, dbmlVars>>

\* parseTableSheet, lines 146-148
firstCellOf(row) == trim(JsString(Cell(row, 0)))
\* parseTableSheet, line 151: the row starts a new table
isTableStart(r) ==
  r.bg # White /\ firstCellOf(r.cells) # <<>> /\ ~isHeaderRow(r.cells)

\* parseTableSheet, lines 151-185: a table-start row
TableStartRow ==
  /\ pc = "parseTableSheet"
  /\ i <= Len(data)
  /\ isTableStart(data[i])
  /\ LET saved == IF currentTable # <<>>
                  THEN saveTable(currentTable[1], globalIdCounter)
                  ELSE [table |-> <<>>, counter |-> globalIdCounter, ids |-> <<>>]
         g == getNextId(saved.counter)
         tableName == firstCellOf(data[i].cells)
         schemaName == ss[sheetIdx].name
     IN  /\ tables' = IF currentTable # <<>> THEN Append(tables, saved.table) ELSE tables
         /\ currentTable' =
              <<[id |-> g.id,
                 name |-> tableName,
                 schema |-> schemaName,
                 color |-> ss[sheetIdx].tabColor[1],
                 x |-> (layoutIndex % tablesPerRow) * spacingX,
                 y |-> (layoutIndex \div tablesPerRow) * spacingY * 8,
                 width |-> tableWidth,
                 fields |-> <<>>,
                 indexes |-> <<>>,
                 rawRelationships |-> <<>>,
                 isView |-> FALSE,
                 createdAt |-> NOW_EPOCH,
                 updatedAt |-> NOW_EPOCH]>>
         /\ layoutIndex' = layoutIndex + 1
         /\ tableMap' = MapSet(tableMap, tableKey(schemaName, tableName),
                               [id |-> g.id, schema |-> schemaName, fields |-> EmptyMap])
         /\ globalIdCounter' = g.counter
         /\ issued' = issued \o saved.ids \o <<g.id>>
  /\ i' = i + 1
  /\ UNCHANGED <<typeVars, runVars, ss, menu, pc, sheetIdx, relationships, customTypes, areas, areaX,
                 processedSheets, output, currentEnum, console, dbmlVars>>

\* parseTableSheet, lines 187-188: a row outside a table, a row with an empty
\* first cell, or a header row is skipped
SkipRow ==
  /\ pc = "parseTableSheet"
  /\ i <= Len(data)
  /\ ~isTableStart(data[i])
  /\ \/ currentTable = <<>>
     \/ firstCellOf(data[i].cells) = <<>>
     \/ isHeaderRow(data[i].cells)
  /\ i' = i + 1
  /\ UNCHANGED <<typeVars, runVars, ss, menu, pc, sheetIdx, jsonVars, dbmlVars>>

\* the row at i is parsed as a field (lines 190-235)
isFieldRow(r) ==
  /\ ~isTableStart(r)
  /\ currentTable # <<>>
  /\ firstCellOf(r.cells) # <<>>
  /\ ~isHeaderRow(r.cells)

\* parseTableSheet, lines 190-235: a field row
FieldRow ==
  /\ pc = "parseTableSheet"
  /\ i <= Len(data)
  /\ isFieldRow(data[i])
  /\ Cell(data[i].cells, 0).k = "str"
  /\ LET row == data[i].cells
         g == getNextId(globalIdCounter)
         f == fieldObj(row, g.id)
         key == tableKey(ss[sheetIdx].name, currentTable[1].name)
     IN  /\ currentTable' =
              <<[currentTable[1] EXCEPT
                   !.fields = Append(@, f),
                   !.rawRelationships =
                      @ \o rawRelationship(JsString(Cell(row, 3)), g.id)]>>
         /\ tableMap' = [tableMap EXCEPT ![key].fields = MapSet(@, f.name, g.id)]
         /\ globalIdCounter' = g.counter
         /\ issued' = Append(issued, g.id)
  /\ i' = i + 1
  /\ UNCHANGED <<typeVars, runVars, ss, menu, pc, sheetIdx, tables, relationships, customTypes, areas, areaX,
                 processedSheets, output, layoutIndex, currentEnum, console, dbmlVars>>

\* parseTableSheet, line 199: fieldName.toLowerCase() on a first cell that is
\* not a string throws a TypeError, which nothing catches: the run ends
FieldRowThrows ==
  /\ pc = "parseTableSheet"
  /\ i <= Len(data)
  /\ isFieldRow(data[i])
  /\ Cell(data[i].cells, 0).k # "str"
  /\ pc' = "aborted"
  /\ UNCHANGED <<typeVars, runVars, ss, menu, sheetIdx, i, jsonVars, dbmlVars>>

\* parseTableSheet, line 237, and generateChartDBJson, line 83; the local
\* currentTable ends with the call
EndTableSheet ==
  /\ pc = "parseTableSheet"
  /\ i > Len(data)
  /\ LET saved == IF currentTable # <<>>
                  THEN saveTable(currentTable[1], globalIdCounter)
                  ELSE [table |-> <<>>, counter |-> globalIdCounter, ids |-> <<>>]
     IN  /\ tables' = IF currentTable # <<>> THEN Append(tables, saved.table) ELSE tables
         /\ globalIdCounter' = saved.counter
         /\ issued' = issued \o saved.ids
  /\ currentTable' = <<>>
  /\ areaX' = areaX + (tableWidth + 100) * 2
  /\ sheetIdx' = sheetIdx + 1
  /\ pc' = "forEachSheet"
  /\ UNCHANGED <<typeVars, runVars, ss, menu, i, relationships, customTypes, areas, tableMap,
                 processedSheets, output, layoutIndex, currentEnum, console, dbmlVars>>

\* parseEnumSheet, lines 249-270: one row
ParseEnumRow ==
  /\ pc = "parseEnumSheet"
  /\ i <= Len(data)
  /\ LET cellVal == firstCellOf(data[i].cells)
         g == getNextId(globalIdCounter)
     IN  IF data[i].bg # White /\ cellVal # <<>>
         THEN /\ customTypes' = customTypes \o currentEnum
              /\ currentEnum' = <<[id |-> g.id,
                                   name |-> cellVal,
                                   kind |-> "enum",
                                   values |-> <<>>,
                                   fields |-> <<>>,
                                   createdAt |-> NOW_EPOCH]>>
              /\ globalIdCounter' = g.counter
              /\ issued' = Append(issued, g.id)
         ELSE /\ currentEnum' =
                   IF currentEnum # <<>> /\ cellVal # <<>>
                   THEN <<[currentEnum[1] EXCEPT !.values = Append(@, cellVal)]>>
                   ELSE currentEnum
              /\ UNCHANGED <<customTypes, globalIdCounter, issued>>
  /\ i' = i + 1
  /\ UNCHANGED <<typeVars, runVars, ss, menu, pc, sheetIdx, tables, relationships, areas, tableMap, areaX,
                 processedSheets, output, currentTable, layoutIndex, console, dbmlVars>>

\* parseEnumSheet, line 271; the local currentEnum ends with the call
EndEnumSheet ==
  /\ pc = "parseEnumSheet"
  /\ i > Len(data)
  /\ customTypes' = customTypes \o currentEnum
  /\ currentEnum' = <<>>
  /\ sheetIdx' = sheetIdx + 1
  /\ pc' = "forEachSheet"
  /\ UNCHANGED <<typeVars, runVars, ss, menu, i, globalIdCounter, tables, relationships, areas, tableMap,
                 areaX, processedSheets, output, currentTable, layoutIndex, console, issued,
                 dbmlVars>>

\* processRelationships, lines 282-308: one foreign-key intent of a table.
\* st holds relationships, the counter, the console and the issued ids.
linkIntent(tbl, rel, st) ==
  LET targetKey == tableKey(tbl.schema, rel.targetTableName)
      found == targetKey \in DOMAIN tableMap
      targetData == tableMap[targetKey]
      fieldKey == IF rel.targetFieldName # <<>> THEN rel.targetFieldName ELSE <<"i","d">>
      g == getNextId(st.counter)
  IN  IF found
      THEN IF fieldKey \in DOMAIN targetData.fields
           THEN [st EXCEPT
                   !.relationships =
                      Append(@, [id |-> g.id,
                                 name |-> tbl.name \o <<"_">> \o targetData.schema
                                          \o <<"_">> \o JsString(targetData.id)
                                          \o <<"_","f","k">>,
                                 sourceSchema |-> tbl.schema,
                                 sourceTableId |-> tbl.id,
                                 sourceFieldId |-> rel.sourceFieldId,
                                 targetSchema |-> targetData.schema,
                                 targetTableId |-> targetData.id,
                                 targetFieldId |-> targetData.fields[fieldKey],
                                 sourceCardinality |-> "many",
                                 targetCardinality |-> "one",
                                 createdAt |-> NOW_EPOCH]),
                   !.counter = g.counter,
                   !.issued = Append(@, g.id)]
           ELSE st
      ELSE [st EXCEPT
              !.console =
                 Append(@, <<"F","o","r","e","i","g","n"," ","k","e","y"," ",
                             "t","a","r","g","e","t"," ","n","o","t"," ",
                             "f","o","u","n","d",":"," ">>
                           \o tbl.schema \o <<".">> \o rel.targetTableName)]

\* table.rawRelationships.forEach
RECURSIVE linkIntents(_, _, _)
linkIntents(tbl, rels, st) ==
  IF rels = <<>> THEN st
  ELSE linkIntents(tbl, Tail(rels), linkIntent(tbl, Head(rels), st))

\* tables.forEach of processRelationships
RECURSIVE linkTables(_, _)
linkTables(tbls, st) ==
  IF tbls = <<>> THEN st
  ELSE linkTables(Tail(tbls), linkIntents(Head(tbls), Head(tbls).rawRelationships, st))

\* delete table.rawRelationships
deleteRawRelationships(tbl) ==
  [k \in DOMAIN tbl \ {"rawRelationships"} |-> tbl[k]]

\* processRelationships, run when the first pass has seen every sheet
processRelationships ==
  /\ pc = "forEachSheet"
  /\ sheetIdx > Len(ss)
  /\ LET st == linkTables(tables, [relationships |-> relationships,
                                   counter |-> globalIdCounter,
                                   console |-> console,
                                   issued |-> issued])
     IN  /\ relationships' = st.relationships
         /\ globalIdCounter' = st.counter
         /\ console' = st.console
         /\ issued' = st.issued
  /\ tables' = [n \in 1..Len(tables) |-> deleteRawRelationships(tables[n])]
  /\ pc' = "output"
  /\ UNCHANGED <<typeVars, runVars, ss, menu, sheetIdx, i, customTypes, areas, tableMap, areaX,
                 processedSheets, output, currentTable, layoutIndex, currentEnum,
                 dbmlVars>>

\* generateChartDBJson, lines 91-103: the document handed to JSON.stringify
GenerateOutput ==
  /\ pc = "output"
  /\ output' = <<[id |-> Str(<<"0">>),
                  name |-> IF SpreadsheetName # <<>> THEN SpreadsheetName
                           ELSE <<"I","m","p","o","r","t","e","d"," ",
                                  "S","c","h","e","m","a">>,
                  databaseType |-> "postgresql",
                  tables |-> tables,
                  relationships |-> relationships,
                  areas |-> areas,
                  customTypes |-> customTypes,
                  notes |-> <<>>,
                  subjectAreas |-> <<>>,
                  createdAt |-> NOW_ISO,
                  updatedAt |-> NOW_ISO]>>
  /\ pc' = "done"
  /\ UNCHANGED <<typeVars, runVars, ss, menu, sheetIdx, i, globalIdCounter, tables, relationships,
                 customTypes, areas, tableMap, areaX, processedSheets, currentTable,
                 layoutIndex, currentEnum, console, issued, dbmlVars>>

\* ------------------------------------------------------ the DBML exporter
\* s.replace(/\s+/g, '_')
RECURSIVE collapseSpaces(_)
collapseSpaces(s) ==
  IF s = <<>> THEN <<>>
  ELSE IF Head(s) \in WhiteSpace THEN <<"_">> \o collapseSpaces(trimStart(s))
  ELSE <<Head(s)>> \o collapseSpaces(Tail(s))

\* s.replace(/[^a-zA-Z0-9_]/g, '')
stripNonWord(s) ==
  SelectSeq(s, LAMBDA c : IsUpper(c) \/ IsLower(c) \/ IsDigit(c) \/ c = "_")

sanitize(name) == stripNonWord(collapseSpaces(trim(name)))
sanitizeEnumName(name) == stripNonWord(collapseSpaces(name))

\* s.replace(/\*\//g, '* /')
RECURSIVE escapeCommentEnd(_)
escapeCommentEnd(s) ==
  IF Len(s) < 2 THEN s
  ELSE IF s[1] = "*" /\ s[2] = "/"
       THEN <<"*"," ","/">> \o escapeCommentEnd(SubSeq(s, 3, Len(s)))
  ELSE <<Head(s)>> \o escapeCommentEnd(Tail(s))

\* a Map kept as the sequence of its entries, in insertion order
SeqMapHas(m, k) == \E n \in 1..Len(m) : m[n].key = k
SeqMapIndex(m, k) == CHOOSE n \in 1..Len(m) : m[n].key = k
SeqMapGet(m, k) == m[SeqMapIndex(m, k)].value
SeqMapSet(m, k, v) ==
  IF SeqMapHas(m, k) THEN [m EXCEPT ![SeqMapIndex(m, k)].value = v]
  ELSE Append(m, [key |-> k, value |-> v])

EnumsSheetName == <<"E","n","u","m","s">>

\* ss.getSheetByName("Enums"): the index of the sheet, 0 when there is none
enumsSheetIndex ==
  IF \E n \in 1..Len(ss) : ss[n].name = EnumsSheetName
  THEN CHOOSE n \in 1..Len(ss) : ss[n].name = EnumsSheetName
  ELSE 0

\* exportDBML, lines 12-22: clear the maps and look for the Enums sheet
exportDBML ==
  /\ pc = "idle"
  /\ menu = "dbml"
  /\ dbTables' = <<>>
  /\ enumsMap' = <<>>
  /\ enumScan' = [currentEnum |-> <<>>, values |-> <<>>]
  /\ IF enumsSheetIndex # 0
     THEN /\ pc' = "dbmlEnumRows"
          /\ sheetIdx' = enumsSheetIndex
     ELSE /\ pc' = "dbmlForEachSheet"
          /\ sheetIdx' = 1
  /\ i' = 1
  /\ UNCHANGED <<typeVars, runVars, ss, menu, jsonVars, table, dbml>>

\* exportDBML, lines 24-40: one row of the Enums sheet
DbmlEnumRow ==
  /\ pc = "dbmlEnumRows"
  /\ i <= Len(data)
  /\ LET cell == trim(JsString(OrEmpty(Cell(data[i].cells, 0))))
     IN  IF cell = <<>> THEN UNCHANGED <<enumsMap, enumScan>>
         ELSE IF IsUpper(cell[1])
         THEN /\ enumsMap' = IF enumScan.currentEnum # <<>>
                             THEN SeqMapSet(enumsMap, enumScan.currentEnum, enumScan.values)
                             ELSE enumsMap
              /\ enumScan' = [currentEnum |-> sanitizeEnumName(cell), values |-> <<>>]
         ELSE /\ enumScan' = [enumScan EXCEPT !.values = Append(@, cell)]
              /\ UNCHANGED enumsMap
  /\ i' = i + 1
  /\ UNCHANGED <<typeVars, runVars, ss, menu, pc, sheetIdx, jsonVars, dbTables, table, dbml>>

\* exportDBML, lines 42-47: save the last enum and go on to the sheets
DbmlEndEnums ==
  /\ pc = "dbmlEnumRows"
  /\ i > Len(data)
  /\ enumsMap' = IF enumScan.currentEnum # <<>>
                 THEN SeqMapSet(enumsMap, enumScan.currentEnum, enumScan.values)
                 ELSE enumsMap
  /\ sheetIdx' = 1
  /\ pc' = "dbmlForEachSheet"
  /\ UNCHANGED <<typeVars, runVars, ss, menu, i, jsonVars, dbTables, enumScan, table, dbml>>

\* exportDBML, line 49: the Enums sheet is not a table sheet
DbmlSkipEnumsSheet ==
  /\ pc = "dbmlForEachSheet"
  /\ sheetIdx <= Len(ss)
  /\ ss[sheetIdx].name = EnumsSheetName
  /\ sheetIdx' = sheetIdx + 1
  /\ UNCHANGED <<typeVars, runVars, ss, menu, pc, i, jsonVars, dbmlVars>>

\* exportDBML, lines 51-53: every other sheet is scanned for tables
DbmlBeginSheet ==
  /\ pc = "dbmlForEachSheet"
  /\ sheetIdx <= Len(ss)
  /\ ss[sheetIdx].name # EnumsSheetName
  /\ table' = <<>>
  /\ i' = 1
  /\ pc' = "dbmlRows"
  /\ UNCHANGED <<typeVars, runVars, ss, menu, sheetIdx, jsonVars, dbTables, enumsMap, enumScan, dbml>>

\* exportDBML, line 57
dbmlFirstCell(row) == trim(JsString(OrEmpty(Cell(row, 0))))

\* String(row[k] || '').trim()
dbmlCell(row, k) == trim(JsString(OrEmpty(Cell(row, k))))

\* exportDBML, lines 71-75: a row with one non-empty cell, followed by a row
\* whose first cell contains "logical", names a table
isDbmlTableHeader(n) ==
  /\ Len(SelectSeq(data[n].cells, LAMBDA c : trim(JsString(c)) # <<>>)) = 1
  /\ n + 1 <= Len(data)
  /\ includes(toLowerCase(JsString(Cell(data[n + 1].cells, 0))),
              <<"l","o","g","i","c","a","l">>)

\* exportDBML, lines 58-68: a row with an empty first cell continues the
\* description of the last field of the current table
DbmlContinuationRow ==
  /\ pc = "dbmlRows"
  /\ i <= Len(data)
  /\ dbmlFirstCell(data[i].cells) = <<>>
  /\ LET continuation == dbmlCell(data[i].cells, 6)
         t == SeqMapGet(dbTables, table[1])
         last == Len(t.fields)
     IN  dbTables' =
           IF table # <<>> /\ Len(t.fields) > 0 /\ continuation # <<>>
           THEN SeqMapSet(dbTables, table[1],
                          [t EXCEPT !.fields[last].description =
                                       @ \o <<"\n">> \o continuation])
           ELSE dbTables
  /\ i' = i + 1
  /\ UNCHANGED <<typeVars, runVars, ss, menu, pc, sheetIdx, jsonVars, enumsMap, enumScan, table, dbml>>

\* exportDBML, lines 70-80: a table header; the row after it is skipped
DbmlTableHeader ==
  /\ pc = "dbmlRows"
  /\ i <= Len(data)
  /\ dbmlFirstCell(data[i].cells) # <<>>
  /\ isDbmlTableHeader(i)
  /\ table' = <<dbmlFirstCell(data[i].cells)>>
  /\ dbTables' = IF SeqMapHas(dbTables, dbmlFirstCell(data[i].cells)) THEN dbTables
                 ELSE SeqMapSet(dbTables, dbmlFirstCell(data[i].cells),
                                [fields |-> <<>>, refs |-> <<>>])
  /\ i' = i + 2
  /\ UNCHANGED <<typeVars, runVars, ss, menu, pc, sheetIdx, jsonVars, enumsMap, enumScan, dbml>>

\* exportDBML, lines 82-83: a row outside a table, or a "logical name" row
DbmlSkipRow ==
  /\ pc = "dbmlRows"
  /\ i <= Len(data)
  /\ dbmlFirstCell(data[i].cells) # <<>>
  /\ ~isDbmlTableHeader(i)
  /\ \/ table = <<>>
     \/ toLowerCase(dbmlFirstCell(data[i].cells))
          = <<"l","o","g","i","c","a","l"," ","n","a","m","e">>
  /\ i' = i + 1
  /\ UNCHANGED <<typeVars, runVars, ss, menu, pc, sheetIdx, jsonVars, dbmlVars>>

\* the row at n is parsed as a field (lines 85-122)
isDbmlFieldRow(n) ==
  /\ dbmlFirstCell(data[n].cells) # <<>>
  /\ ~isDbmlTableHeader(n)
  /\ table # <<>>
  /\ toLowerCase(dbmlFirstCell(data[n].cells))
       # <<"l","o","g","i","c","a","l"," ","n","a","m","e">>

\* the settings 'pk' and 'not null' (lines 105-106)
PkSetting == <<"p","k">>
NotNullSetting == <<"n","o","t"," ","n","u","l","l">>

\* exportDBML, lines 85-113: the field pushed for a row
dbmlField(row) ==
  LET logicalName == dbmlFirstCell(row)
      optional == toUpperCase(dbmlCell(row, 2))
      typeRaw == dbmlCell(row, 3)
      relationRaw == dbmlCell(row, 4)
      description == dbmlCell(row, 6)
      relLower == toLowerCase(relationRaw)
      parts == split(relationRaw, ",")
      fieldType ==
        IF /\ relationRaw # <<>>
           /\ (startsWith(relLower, <<"e","n","u","m">>)
               \/ includes(relLower, <<"b","a","s","e">>))
           /\ Len(parts) > 1 /\ parts[2] # <<>>
        THEN sanitizeEnumName(trim(parts[2]))
        ELSE mapTypeExact(typeRaw)
  IN  [name |-> logicalName,
       type |-> fieldType,
       settings |->
         (IF toLowerCase(logicalName) = <<"i","d">> THEN <<PkSetting>> ELSE <<>>)
         \o (IF optional = <<"N">> THEN <<NotNullSetting>> ELSE <<>>),
       description |-> description]

\* the relation cell asks for a Ref (line 116)
isDbmlForeignKey(row) ==
  startsWith(toLowerCase(dbmlCell(row, 4)),
             <<"f","o","r","e","i","g","n","k","e","y">>)

\* exportDBML, lines 117-121: the Ref line of a foreign-key relation cell
dbmlRef(tableName, row) ==
  LET target == trim(split(dbmlCell(row, 4), ",")[2])
      parts == split(target, ".")
      targetTable == sanitize(parts[1])
      targetCol == IF Len(parts) > 1 /\ parts[2] # <<>> THEN parts[2] ELSE <<"i","d">>
  IN  <<"R","e","f",":"," ">> \o sanitize(tableName) \o <<".">>
      \o sanitize(dbmlFirstCell(row)) \o <<" ",">"," ">> \o targetTable
      \o <<".">> \o targetCol

\* relationRaw.split(',')[1] is undefined: .trim() throws (line 117)
dbmlRefThrows(row) ==
  isDbmlForeignKey(row) /\ Len(split(dbmlCell(row, 4), ",")) < 2

\* exportDBML, lines 85-122: a field row
DbmlFieldRow ==
  /\ pc = "dbmlRows"
  /\ i <= Len(data)
  /\ isDbmlFieldRow(i)
  /\ ~dbmlRefThrows(data[i].cells)
  /\ LET row == data[i].cells
         t == SeqMapGet(dbTables, table[1])
         withField == [t EXCEPT !.fields = Append(@, dbmlField(row))]
     IN  dbTables' =
           SeqMapSet(dbTables, table[1],
                     IF isDbmlForeignKey(row)
                     THEN [withField EXCEPT !.refs = Append(@, dbmlRef(table[1], row))]
                     ELSE withField)
  /\ i' = i + 1
  /\ UNCHANGED <<typeVars, runVars, ss, menu, pc, sheetIdx, jsonVars, enumsMap, enumScan, table, dbml>>

\* exportDBML, line 117: a foreign-key relation cell with no comma throws a
\* TypeError after the field is pushed; nothing catches it and the run ends
DbmlFieldRowThrows ==
  /\ pc = "dbmlRows"
  /\ i <= Len(data)
  /\ isDbmlFieldRow(i)
  /\ dbmlRefThrows(data[i].cells)
  /\ LET t == SeqMapGet(dbTables, table[1])
     IN  dbTables' = SeqMapSet(dbTables, table[1],
                               [t EXCEPT !.fields = Append(@, dbmlField(data[i].cells))])
  /\ pc' = "aborted"
  /\ UNCHANGED <<typeVars, runVars, ss, menu, sheetIdx, i, jsonVars, enumsMap, enumScan, table, dbml>>

\* the for loop of a sheet ends
DbmlEndSheet ==
  /\ pc = "dbmlRows"
  /\ i > Len(data)
  /\ sheetIdx' = sheetIdx + 1
  /\ pc' = "dbmlForEachSheet"
  /\ UNCHANGED <<typeVars, runVars, ss, menu, i, jsonVars, dbmlVars>>

\* exportDBML, lines 130-132: the text of one enum
dbmlEnumText(e) ==
  <<"E","n","u","m"," ">> \o e.key \o <<" ","{","\n"," "," ">>
  \o join(e.value, <<"\n"," "," ">>) \o <<"\n","}","\n","\n">>

\* exportDBML, lines 137-152: the line of one field
dbmlFieldText(f) ==
  LET safeDescription == escapeCommentEnd(f.description)
  IN  <<" "," ">> \o sanitize(f.name) \o <<" ">> \o f.type
      \o (IF Len(f.settings) > 0
          THEN <<" ","[">> \o join(f.settings, <<","," ">>) \o <<"]">>
          ELSE <<>>)
      \o (IF f.description = <<>> THEN <<>>
          ELSE IF includes(safeDescription, <<"\n">>)
          THEN <<" ","/","*","\n">> \o safeDescription \o <<"\n"," "," ","*","/">>
          ELSE <<" ","/","/"," ">> \o safeDescription)
      \o <<"\n">>

\* exportDBML, lines 135-156: the text of one table and its refs
dbmlTableText(e) ==
  <<"T","a","b","l","e"," ">> \o sanitize(e.key) \o <<" ","{","\n">>
  \o Concat([n \in 1..Len(e.value.fields) |-> dbmlFieldText(e.value.fields[n])])
  \o <<"}","\n">>
  \o (IF Len(e.value.refs) > 0 THEN join(e.value.refs, <<"\n">>) \o <<"\n">> ELSE <<>>)
  \o <<"\n">>

\* exportDBML, lines 126-156: build the DBML text when every sheet is scanned
DbmlBuild ==
  /\ pc = "dbmlForEachSheet"
  /\ sheetIdx > Len(ss)
  /\ dbml' = <<Concat([n \in 1..Len(enumsMap) |-> dbmlEnumText(enumsMap[n])])
               \o Concat([n \in 1..Len(dbTables) |-> dbmlTableText(dbTables[n])])>>
  /\ pc' = "done"
  /\ UNCHANGED <<typeVars, runVars, ss, menu, sheetIdx, i, jsonVars, dbTables, enumsMap, enumScan, table>>

\* ------------------------------------------------------------- the inputs
RowFill == "#c9daf8"
TabColor == "#ff0000"

\* a row of the JSON exporter's layout: name, optional, type, relation,
\* constraints, description
JsonRow(bg, name, optional, type, relation, description) ==
  [bg |-> bg,
   cells |-> <<name, Str(optional), Str(type), Str(relation), Empty, Str(description)>>]

\* a row of the DBML exporter's layout: logical name, field name, optional,
\* type, relation, constraints, description
DbmlRow(logical, optional, type, relation, description) ==
  [bg |-> White,
   cells |-> <<Str(logical), Str(logical), Str(optional), Str(type), Str(relation),
               Empty, Str(description)>>]

\* a row of one cell
OneCell(bg, text) == [bg |-> bg, cells |-> <<Str(text)>>]

IntType == <<"i","n","t">>
FkToAId == <<"F","o","r","e","i","g","n","K","e","y",","," ","A",".","i","d">>
FkNoTarget == <<"F","o","r","e","i","g","n","K","e","y">>

\* table-start rows and field rows of the JSON layout
jA == JsonRow(RowFill, Str(<<"A">>), <<>>, <<>>, <<>>, <<>>)
jB == JsonRow(RowFill, Str(<<"B">>), <<>>, <<>>, <<>>, <<>>)
jTA == JsonRow(RowFill, Str(<<"T",".","A">>), <<>>, <<>>, <<>>, <<>>)
jId == JsonRow(White, Str(<<"i","d">>), <<"N">>, IntType, <<>>, <<>>)
jFk == JsonRow(White, Str(<<"a","_","i","d">>), <<>>, IntType, FkToAId, <<>>)
jHeader ==
  [bg |-> RowFill,
   cells |-> <<Str(<<"L","o","g","i","c","a","l"," ","N","a","m","e">>),
               Str(<<"O","p","t","i","o","n","a","l">>),
               Str(<<"F","i","e","l","d"," ","T","y","p","e">>),
               Str(<<"R","e","l","a","t","i","o","n">>),
               Str(<<"C","o","n","s","t","r","a","i","n","t","s">>),
               Str(<<"D","e","s","c","r","i","p","t","i","o","n">>)>>]
jName == JsonRow(White, Str(<<"N","a","m","e">>), <<"N">>,
                 <<"v","a","r","c","h","a","r">>, <<>>, <<"P","r","i","m","a","r","y">>)
jNote == JsonRow(White, Str(<<"N","o","t","e">>), <<"U","n","k","n","o","w","n">>,
                 <<"t","e","x","t">>, <<>>, <<>>)
jMore == JsonRow(White, Empty, <<>>, <<>>, <<>>,
                 <<"d","i","s","p","l","a","y"," ","n","a","m","e">>)
jNumber == JsonRow(White, Num(<<"7">>), <<>>, IntType, <<>>, <<>>)
jFkNoTarget == JsonRow(White, Str(<<"r","e","f">>), <<"Y">>, IntType, FkNoTarget, <<>>)

\* rows of an enum sheet
eStatus == OneCell(RowFill, <<"S","t","a","t","u","s">>)
eActive == OneCell(White, <<"A","C","T","I","V","E">>)
eLower == OneCell(White, <<"a","c","t","i","v","e">>)
eBlank == OneCell(White, <<>>)
eBlankFilled == OneCell(RowFill, <<>>)

\* rows of the DBML layout
dA == [bg |-> White, cells |-> <<Str(<<"A">>), Empty, Empty, Empty, Empty, Empty, Empty>>]
dHeader ==
  [bg |-> White,
   cells |-> <<Str(<<"L","o","g","i","c","a","l"," ","N","a","m","e">>),
               Str(<<"F","i","e","l","d"," ","N","a","m","e">>),
               Str(<<"O","p","t","i","o","n","a","l">>),
               Str(<<"F","i","e","l","d"," ","T","y","p","e">>),
               Str(<<"R","e","l","a","t","i","o","n">>),
               Str(<<"C","o","n","s","t","r","a","i","n","t","s">>),
               Str(<<"D","e","s","c","r","i","p","t","i","o","n">>)>>]
dId == DbmlRow(<<"i","d">>, <<"N">>, IntType, <<>>, <<"P","r","i","m","a","r","y">>)
dFk == DbmlRow(<<"a","_","i","d">>, <<>>, IntType, FkToAId, <<>>)
dNote == DbmlRow(<<"N","o","t","e">>, <<"U","n","k","n","o","w","n">>,
                 <<"t","e","x","t">>, <<>>, <<>>)
dMore == DbmlRow(<<>>, <<>>, <<>>, <<>>, <<"d","i","s","p","l","a","y"," ","n","a","m","e">>)
dFkNoTarget == DbmlRow(<<"r","e","f">>, <<"Y">>, IntType, FkNoTarget, <<>>)

\* a slot of a spreadsheet shape: a sheet's name and tab color, its fixed first
\* rows, and the rows the rest of it is drawn from
Slot(name, tabColor, prefix, catalog) ==
  [name |-> name, tabColor |-> tabColor, prefix |-> prefix, catalog |-> catalog]

SheetS == <<"S">>
SheetST == <<"S",".","T">>

RelRows == {jA, jB, jTA, jId, jFk}

JsonShapes ==
  { <<Slot(SheetS, <<TabColor>>, <<jA, jId>>, RelRows)>>,
    <<Slot(SheetS, <<TabColor>>, <<jB, jFk>>, RelRows)>>,
    <<Slot(SheetS, <<TabColor>>, <<>>, RelRows),
      Slot(SheetST, <<TabColor>>, <<jB, jFk>>, RelRows)>>,
    <<Slot(<<"R">>, <<TabColor>>, <<jA>>,
           {jA, jHeader, jName, jNote, jMore, jNumber, jFkNoTarget})>>,
    <<Slot(EnumsSheetName, <<>>, <<>>, {eStatus, eActive, eBlank, eBlankFilled}),
      Slot(SheetS, <<TabColor>>, <<jA, jId>>, {jA, jFk})>>,
    <<Slot(<<"D","r","a","f","t">>, <<>>, <<>>, {jA}),
      Slot(SheetS, <<TabColor>>, <<>>, {jA, jId})>>,
    <<Slot(SheetST, <<TabColor>>, <<jA, jId, jB, jFk>>, {jId}),
      Slot(SheetS, <<TabColor>>, <<jTA>>, {jId})>> }

DbmlShapes ==
  { <<Slot(SheetS, <<>>, <<dA, dHeader>>,
           {dA, dHeader, dId, dFk, dNote, dMore, dFkNoTarget})>>,
    <<Slot(EnumsSheetName, <<>>, <<>>, {eStatus, eActive, eLower, eBlank}),
      Slot(SheetS, <<>>, <<dA, dHeader>>, {dId})>> }

\* the spreadsheets of a shape with at most budget rows beyond the fixed ones
RECURSIVE Fill(_, _)
Fill(shape, budget) ==
  IF shape = <<>> THEN {<<>>}
  ELSE UNION { { <<[name |-> shape[1].name,
                    tabColor |-> shape[1].tabColor,
                    data |-> shape[1].prefix \o rows]>> \o rest :
                 rows \in [1..n -> shape[1].catalog],
                 rest \in Fill(Tail(shape), budget - n) } :
               n \in 0..budget }

Inputs ==
  UNION { {<<"json", sheets>> : sheets \in Fill(shape, MaxRows)} : shape \in JsonShapes }
  \cup
  UNION { {<<"dbml", sheets>> : sheets \in Fill(shape, MaxRows)} : shape \in DbmlShapes }

\* the state when the scripts are loaded (appscript.js lines 14-20, part_000
\* lines 2-3) and the user is about to pick a menu item
Loaded ==
  /\ pc = "idle"
  /\ sheetIdx = 1
  /\ i = 1
  /\ globalIdCounter = 1
  /\ tables = <<>>
  /\ relationships = <<>>
  /\ customTypes = <<>>
  /\ areas = <<>>
  /\ tableMap = EmptyMap
  /\ areaX = 0
  /\ processedSheets = <<>>
  /\ output = <<>>
  /\ currentTable = <<>>
  /\ layoutIndex = 0
  /\ currentEnum = <<>>
  /\ console = <<>>
  /\ issued = <<>>
  /\ dbTables = <<>>
  /\ enumsMap = <<>>
  /\ enumScan = [currentEnum |-> <<>>, values |-> <<>>]
  /\ table = <<>>
  /\ dbml = <<>>
  /\ runNo = 1
  /\ previous = <<>>

Init ==
  /\ Loaded
  /\ \E input \in Inputs : menu = input[1] /\ ss = input[2]
  /\ rawType = <<>>
  /\ chartDbType = <<>>
  /\ dbmlType = <<>>

Next ==
  \/ generateChartDBJson
  \/ SkipSheet
  \/ BeginEnumSheet
  \/ BeginTableSheet
  \/ TableStartRow
  \/ SkipRow
  \/ FieldRow
  \/ FieldRowThrows
  \/ EndTableSheet
  \/ ParseEnumRow
  \/ EndEnumSheet
  \/ processRelationships
  \/ GenerateOutput
  \/ exportDBML
  \/ DbmlEnumRow
  \/ DbmlEndEnums
  \/ DbmlSkipEnumsSheet
  \/ DbmlBeginSheet
  \/ DbmlContinuationRow
  \/ DbmlTableHeader
  \/ DbmlSkipRow
  \/ DbmlFieldRow
  \/ DbmlFieldRowThrows
  \/ DbmlEndSheet
  \/ DbmlBuild

Spec == Init /\ [][Next]_vars

\* ------------------------------------------- the type mappers on their own
\* the type names the mappers know, two more, and the empty cell
TypeNames ==
  { <<"b","i","g","i","n","t">>, <<"i","n","t">>, <<"i","n","t","e","g","e","r">>,
    <<"s","m","a","l","l","i","n","t">>, <<"t","i","m","e","s","t","a","m","p">>,
    <<"d","a","t","e","t","i","m","e">>, <<"d","a","t","e">>,
    <<"b","o","o","l","e","a","n">>, <<"b","o","o","l">>,
    <<"n","u","m","e","r","i","c">>, <<"d","e","c","i","m","a","l">>,
    <<"v","a","r","c","h","a","r">>, <<"t","e","x","t">>, <<"m","o","n","e","y">>,
    <<"u","u","i","d">>, <<>> }

\* a type name as typed, in upper case, and with a parenthesised suffix
TypeTokens ==
  UNION { { name, toUpperCase(name),
            name \o <<"(","8",")">>, toUpperCase(name) \o <<"(","5",",","2",")">> } :
          name \in TypeNames }

TypeInit ==
  /\ Loaded
  /\ ss = <<>>
  /\ menu = "types"
  /\ rawType \in TypeTokens
  /\ chartDbType = <<>>
  /\ dbmlType = <<>>

\* parseTableSheet, line 202
CallMapTypeToChartDB ==
  /\ chartDbType = <<>>
  /\ chartDbType' = <<mapTypeToChartDB(rawType)>>
  /\ UNCHANGED <<ss, menu, pc, sheetIdx, i, jsonVars, dbmlVars, runVars,
               rawType, dbmlType>>

\* exportDBML, line 93
CallMapTypeExact ==
  /\ dbmlType = <<>>
  /\ dbmlType' = <<mapTypeExact(rawType)>>
  /\ UNCHANGED <<ss, menu, pc, sheetIdx, i, jsonVars, dbmlVars, runVars,
               rawType, chartDbType>>

TypeNext ==
  \/ CallMapTypeToChartDB
  \/ CallMapTypeExact

TypeSpec == TypeInit /\ [][TypeNext]_vars

\* ------------------------------------------- several runs of one process
\* what a run leaves behind: the globals of the two scripts and its result
snapshot ==
  [pc |-> pc, ss |-> ss,
   globalIdCounter |-> globalIdCounter, tables |-> tables,
   relationships |-> relationships, customTypes |-> customTypes,
   areas |-> areas, tableMap |-> tableMap, output |-> output,
   dbTables |-> dbTables, enumsMap |-> enumsMap, dbml |-> dbml]

\* the spreadsheet when the menu item is picked again: as it was, or with the
\* last row of its last sheet deleted
Edits(sheets) ==
  {sheets} \cup
  { [sheets EXCEPT ![Len(sheets)].data = SubSeq(@, 1, Len(@) - 1)] :
      x \in {n \in {Len(sheets)} : n > 0 /\ Len(sheets[n].data) > 0} }

\* the handler has returned (or thrown): its locals are gone, the globals of
\* the scripts stay (appscript.js lines 14-20, part_000 lines 2-3), and the
\* user is about to pick the menu item again
NextRun ==
  /\ pc \in {"done", "aborted"}
  /\ runNo < MaxRuns
  /\ runNo' = runNo + 1
  /\ previous' = <<snapshot>>
  /\ ss' \in Edits(ss)
  /\ pc' = "idle"
  /\ sheetIdx' = 1
  /\ i' = 1
  /\ areaX' = 0
  /\ processedSheets' = <<>>
  /\ output' = <<>>
  /\ currentTable' = <<>>
  /\ layoutIndex' = 0
  /\ currentEnum' = <<>>
  /\ enumScan' = [currentEnum |-> <<>>, values |-> <<>>]
  /\ table' = <<>>
  /\ dbml' = <<>>
  /\ UNCHANGED <<typeVars, menu, globalIdCounter, tables, relationships, customTypes,
                 areas, tableMap, console, issued, dbTables, enumsMap>>

RerunInputs ==
  UNION { {<<"json", sheets>> : sheets \in Fill(shape, MaxRerunRows)} : shape \in JsonShapes }
  \cup
  UNION { {<<"dbml", sheets>> : sheets \in Fill(shape, MaxRerunRows)} : shape \in DbmlShapes }

RerunInit ==
  /\ Loaded
  /\ \E input \in RerunInputs : menu = input[1] /\ ss = input[2]
  /\ rawType = <<>>
  /\ chartDbType = <<>>
  /\ dbmlType = <<>>

RerunNext ==
  \/ Next
  \/ NextRun

RerunSpec == RerunInit /\ [][RerunNext]_vars

\* ================================================================== claims
\* the elements of a sequence
Range(seq) == {seq[n] : n \in 1..Len(seq)}

\* the tables parsed so far, the one in progress last
allTables == tables \o currentTable

\* the identities the entities of the model carry, entity by entity
entityIds ==
  [n \in 1..Len(areas) |-> areas[n].id]
  \o [n \in 1..Len(allTables) |-> allTables[n].id]
  \o Concat([n \in 1..Len(allTables) |->
               [m \in 1..Len(allTables[n].fields) |-> allTables[n].fields[m].id]])
  \o Concat([n \in 1..Len(allTables) |->
               [m \in 1..Len(allTables[n].indexes) |-> allTables[n].indexes[m].id]])
  \o [n \in 1..Len(customTypes \o currentEnum) |-> (customTypes \o currentEnum)[n].id]
  \o [n \in 1..Len(relationships) |-> relationships[n].id]

isDecimalString(v) ==
  v.k = "str" /\ v.s # <<>> /\ \A n \in 1..Len(v.s) : IsDigit(v.s[n])

\* C4: within a run of generateChartDBJson the identities getNextId returns
\* are strings, the first is "1", they are pairwise distinct and strictly
\* increasing in issuance order, and the areas, tables, fields, primary-key
\* indexes, enums and relationships carry exactly these identities, each once.
C4_IdentitiesDistinctIncreasing ==
  /\ \A n \in 1..Len(issued) : isDecimalString(issued[n])
  /\ Len(issued) > 0 => issued[1] = Str(<<"1">>)
  /\ \A m, n \in 1..Len(issued) :
       m < n => /\ issued[m] # issued[n]
                /\ parseInt(issued[m].s) < parseInt(issued[n].s)
  /\ Len(entityIds) = Len(issued)
  /\ Range(entityIds) = Range(issued)

\* C4 witness: a finished run that issued identities to an area, a table, a
\* field, a primary-key index, an enum and a relationship
C4_Witness ==
  /\ pc = "done"
  /\ menu = "json"
  /\ areas # <<>>
  /\ customTypes # <<>>
  /\ relationships # <<>>
  /\ \E n \in 1..Len(tables) : tables[n].indexes # <<>> /\ tables[n].fields # <<>>

\* C5: a run never aborts partway through a sheet scan: whatever the cells
\* hold, both exporters scan every sheet to its end and produce their output.
C5_RunNeverAborts ==
  /\ pc # "aborted"
  /\ pc = "done" /\ menu = "json" => output # <<>>
  /\ pc = "done" /\ menu = "dbml" => dbml # <<>>

\* the type a priority list of the specification gives a token: rules 3, 4,
\* 6, 7 and 8, matched as prefixes of the lower-cased token, first match wins
specTypeFamily(token) ==
  LET t == toLowerCase(token)
  IN  IF startsWith(t, <<"b","i","g","i","n","t">>) THEN "bigint"
      ELSE IF \/ startsWith(t, <<"i","n","t">>)
              \/ startsWith(t, <<"s","m","a","l","l","i","n","t">>) THEN "integer"
      ELSE IF \/ startsWith(t, <<"t","i","m","e","s","t","a","m","p">>)
              \/ startsWith(t, <<"d","a","t","e","t","i","m","e">>) THEN "timestamp"
      ELSE IF startsWith(t, <<"d","a","t","e">>) THEN "date"
      ELSE IF startsWith(t, <<"b","o","o","l">>) THEN "boolean"
      ELSE "other"

\* the family of a type name a mapper returned
typeFamily(name) ==
  IF name = <<"b","i","g","i","n","t">> THEN "bigint"
  ELSE IF name \in {<<"i","n","t">>, <<"i","n","t","e","g","e","r">>,
                    <<"s","m","a","l","l","i","n","t">>} THEN "integer"
  ELSE IF name = <<"t","i","m","e","s","t","a","m","p">> THEN "timestamp"
  ELSE IF name = <<"d","a","t","e">> THEN "date"
  ELSE IF name = <<"b","o","o","l","e","a","n">> THEN "boolean"
  ELSE "other"

\* C9: for every token among bigint, int, integer, smallint, timestamp,
\* datetime, date, boolean, bool, in any case and with or without a
\* parenthesised suffix, both type mappers return the type the priority list
\* of the specification gives it.
C9_MappersFollowPriorityList ==
  specTypeFamily(rawType) # "other" =>
    /\ dbmlType # <<>> => typeFamily(dbmlType[1]) = specTypeFamily(rawType)
    /\ chartDbType # <<>> => typeFamily(chartDbType[1].id) = specTypeFamily(rawType)

\* the last element of a non-empty sequence
Last(seq) == seq[Len(seq)]

\* the optional-flag text equals "N", whatever the case
flagIsN(v) == toUpperCase(trim(JsString(v))) = <<"N">>
\* the field name equals "id", whatever the case
nameIsId(v) == toLowerCase(trim(JsString(v))) = <<"i","d">>

\* C8: for every field row the field is required exactly when its optional
\* flag equals "N" in any case, it is a primary key exactly when its name
\* equals "id" in any case, and it is nullable exactly when it is neither; in
\* the DBML exporter the settings 'not null' and 'pk' say the same.
C8_FlagDecidesNullability ==
  [][ /\ FieldRow =>
           LET row == data[i].cells
               f == Last(currentTable'[1].fields)
           IN  /\ f.primaryKey = nameIsId(Cell(row, 0))
               /\ f.nullable = (~flagIsN(Cell(row, 1)) /\ ~nameIsId(Cell(row, 0)))
      /\ DbmlFieldRow =>
           LET row == data[i].cells
               f == Last(SeqMapGet(dbTables', table[1]).fields)
           IN  /\ (PkSetting \in Range(f.settings)) = nameIsId(Cell(row, 0))
               /\ (NotNullSetting \in Range(f.settings)) = flagIsN(Cell(row, 2))
    ]_vars

\* a row whose first cell is empty and whose description column (col) is not
isContinuation(r, col) ==
  /\ trim(JsString(OrEmpty(Cell(r.cells, 0)))) = <<>>
  /\ trim(JsString(OrEmpty(Cell(r.cells, col)))) # <<>>

\* row n continues the description of a field: a field row comes before it,
\* with nothing but continuation rows in between
continuesField(n, col) ==
  /\ isContinuation(data[n], col)
  /\ \E m \in 1..(n - 1) :
       /\ IF menu = "json" THEN isFieldRow(data[m]) ELSE isDbmlFieldRow(m)
       /\ \A k \in (m + 1)..(n - 1) : isContinuation(data[k], col)

\* C6: a row with an empty first cell and a non-empty description that
\* follows a field row (or a continuation of it) appends its text to that
\* field's description after a newline; it adds no field and changes no
\* other table.
C6_ContinuationAppends ==
  [][ /\ ( /\ pc = "parseTableSheet" /\ i <= Len(data) /\ i' = i + 1
           /\ currentTable # <<>>
           /\ continuesField(i, 5) )
         => /\ currentTable' # <<>>
            /\ Len(currentTable'[1].fields) = Len(currentTable[1].fields)
            /\ JsString(Last(currentTable'[1].fields).comment)
                 = JsString(Last(currentTable[1].fields).comment) \o <<"\n">>
                   \o trim(JsString(Cell(data[i].cells, 5)))
            /\ tables' = tables
      /\ ( /\ pc = "dbmlRows" /\ i <= Len(data) /\ i' = i + 1
           /\ table # <<>>
           /\ continuesField(i, 6) )
         => /\ Len(dbTables') = Len(dbTables)
            /\ \A n \in 1..Len(dbTables) :
                 IF dbTables[n].key = table[1]
                 THEN /\ Len(dbTables'[n].value.fields) = Len(dbTables[n].value.fields)
                      /\ Last(dbTables'[n].value.fields).description
                           = Last(dbTables[n].value.fields).description \o <<"\n">>
                             \o trim(JsString(Cell(data[i].cells, 6)))
                 ELSE dbTables'[n] = dbTables[n]
    ]_vars

\* the enums a sheet describes: a filled row with text is a boundary row and
\* names an enum; the rows with text up to the next boundary row are its values
RECURSIVE sheetEnums(_, _)
sheetEnums(rows, acc) ==
  IF rows = <<>> THEN acc
  ELSE LET text == trim(JsString(OrEmpty(Cell(Head(rows).cells, 0))))
       IN  IF text = <<>> THEN sheetEnums(Tail(rows), acc)
           ELSE IF Head(rows).bg # White
           THEN sheetEnums(Tail(rows), Append(acc, [name |-> text, values |-> <<>>]))
           ELSE IF acc = <<>> THEN sheetEnums(Tail(rows), acc)
           ELSE sheetEnums(Tail(rows),
                           [acc EXCEPT ![Len(acc)].values = Append(@, text)])

\* the enums of every enum sheet of the spreadsheet, in tab order
RECURSIVE jsonSheetEnums(_)
jsonSheetEnums(sheets) ==
  IF sheets = <<>> THEN <<>>
  ELSE (IF isEnumSheet(Head(sheets)) THEN sheetEnums(Head(sheets).data, <<>>) ELSE <<>>)
       \o jsonSheetEnums(Tail(sheets))

\* the first row with text of an enum sheet is a filled row
startsWithBoundary(rows) ==
  \E n \in 1..Len(rows) :
    /\ rows[n].bg # White
    /\ trim(JsString(OrEmpty(Cell(rows[n].cells, 0)))) # <<>>
    /\ \A k \in 1..(n - 1) : trim(JsString(OrEmpty(Cell(rows[k].cells, 0)))) = <<>>

\* C7: the enum parser outputs one enum per boundary row, in source order,
\* whose values are the non-empty rows up to the next boundary row, in
\* source order (boundary "Status", then "ACTIVE" gives Status=[ACTIVE]);
\* empty cells give neither a value nor a boundary, and the last enum is
\* emitted although no boundary row follows it.
C7_OneEnumPerBoundaryRow ==
  /\ pc = "done" /\ menu = "json" =>
       [n \in 1..Len(customTypes) |->
          [name |-> customTypes[n].name, values |-> customTypes[n].values]]
       = jsonSheetEnums(ss)
  /\ ( /\ pc = "done" /\ menu = "dbml" /\ enumsSheetIndex # 0
       /\ startsWithBoundary(ss[enumsSheetIndex].data) ) =>
       [n \in 1..Len(enumsMap) |->
          [name |-> enumsMap[n].key, values |-> enumsMap[n].value]]
       = LET e == sheetEnums(ss[enumsSheetIndex].data, <<>>)
         IN  [n \in 1..Len(e) |->
                [name |-> sanitizeEnumName(e[n].name), values |-> e[n].values]]

\* the foreign-key intents recorded on the tables: <<table index, intent index>>
intents ==
  { <<n, k>> \in (1..Len(tables)) \X (1..MaxRows + 2) :
      k <= Len(tables[n].rawRelationships) }
intentOf(nk) == tables[nk[1]].rawRelationships[nk[2]]

\* the tables of T's schema that carry the intent's target table name
targetTablesInSchema(nk) ==
  { m \in 1..Len(tables) :
      /\ tables[m].schema = tables[nk[1]].schema
      /\ tables[m].name = intentOf(nk).targetTableName }
\* the tables of any other sheet that carry the intent's target table name
targetTablesElsewhere(nk) ==
  { m \in 1..Len(tables) :
      /\ tables[m].schema # tables[nk[1]].schema
      /\ tables[m].name = intentOf(nk).targetTableName }
\* the fields of table m that carry the intent's target field name
targetFields(nk, m) ==
  { j \in 1..Len(tables[m].fields) :
      tables[m].fields[j].name = intentOf(nk).targetFieldName }
\* relationship r runs from the intent's field to field j of table m
links(r, nk, m, j) ==
  /\ r.sourceTableId = tables[nk[1]].id
  /\ r.sourceFieldId = intentOf(nk).sourceFieldId
  /\ r.targetTableId = tables[m].id
  /\ r.targetFieldId = tables[m].fields[j].id
\* the relationships that start at the intent's field
startingAt(rels, nk) ==
  { x \in 1..Len(rels) :
      /\ rels[x].sourceTableId = tables[nk[1]].id
      /\ rels[x].sourceFieldId = intentOf(nk).sourceFieldId }

\* C1: for every foreign-key intent on a table T whose target table name
\* exists (once) in T's schema and whose target field name exists in that table,
\* processRelationships appends exactly one relationship from the intent's
\* field to the named table and field, many to one, whatever the scan order
\* of the two tables, and afterwards the intent is no longer stored on T.
C1_ResolvableIntentLinkedOnce ==
  [][ processRelationships =>
        \A nk \in intents :
          ( /\ Cardinality(targetTablesInSchema(nk)) = 1
            /\ \E m \in targetTablesInSchema(nk) : targetFields(nk, m) # {} )
          => /\ Cardinality(startingAt(relationships', nk)) = 1
             /\ \A x \in startingAt(relationships', nk) :
                  /\ \E m \in targetTablesInSchema(nk) : \E j \in targetFields(nk, m) :
                       links(relationships'[x], nk, m, j)
                  /\ relationships'[x].sourceCardinality = "many"
                  /\ relationships'[x].targetCardinality = "one"
             /\ "rawRelationships" \notin DOMAIN tables'[nk[1]]
    ]_vars

\* C2: for every foreign-key intent whose target table name is not found in
\* T's schema, processRelationships creates no relationship and records
\* exactly one warning; the pass goes on to the remaining intents and tables.
C2_MissingTargetWarnedOnce ==
  [][ processRelationships =>
        /\ \A nk \in intents :
             targetTablesInSchema(nk) = {} => startingAt(relationships', nk) = {}
        /\ Len(console') - Len(console)
             = Cardinality({ nk \in intents : targetTablesInSchema(nk) = {} })
        /\ pc' = "output"
    ]_vars

\* C3: when a field carries the relation "ForeignKey, TargetTable.field" and
\* TargetTable with that field is defined on another processed sheet (and
\* only there), the JSON holds a relationship from the field to that field.
C3_CrossSheetRelationships ==
  [][ processRelationships =>
        \A nk \in intents :
          /\ targetTablesInSchema(nk) = {}
          /\ \E m \in targetTablesElsewhere(nk) : targetFields(nk, m) # {}
          => \E x \in startingAt(relationships', nk) :
               \E m \in targetTablesElsewhere(nk) : \E j \in targetFields(nk, m) :
                 links(relationships'[x], nk, m, j)
    ]_vars

\* field id fid belongs to a field of table t
hasField(t, fid) == \E j \in 1..Len(t.fields) : t.fields[j].id = fid

\* C10: every relationship of the export runs from a field of a table of the
\* output to a field of a table of the output, and none exists for an intent
\* whose target table or target field is missing, also when two tables or
\* two fields share a name.
C10_RelationshipsReferentiallyIntact ==
  [][ processRelationships =>
        \A x \in 1..Len(relationships') :
          LET r == relationships'[x]
          IN  /\ \E n \in 1..Len(tables') :
                   tables'[n].id = r.sourceTableId /\ hasField(tables'[n], r.sourceFieldId)
              /\ \E m \in 1..Len(tables') :
                   tables'[m].id = r.targetTableId /\ hasField(tables'[m], r.targetFieldId)
              /\ \E nk \in intents : \E m \in 1..Len(tables) :
                   /\ tables[m].name = intentOf(nk).targetTableName
                   /\ \E j \in targetFields(nk, m) : links(r, nk, m, j)
    ]_vars

\* the texts of the first cells of the rows of a sheet
firstCells(sheet) ==
  { trim(JsString(OrEmpty(Cell(sheet.data[n].cells, 0)))) : n \in 1..Len(sheet.data) }

\* C11: in every run of a sequence of runs the accumulators hold only what
\* this run parsed: the identities restart at "1" and the areas, tables,
\* fields, indexes, enums, relationships and tableMap entries carry only
\* identities issued in this run; the DBML maps hold only tables and enums
\* of the present sheets; and a run on the input of the run before it leaves
\* the same globals and the same result as that run.
C11_RunsStartFromEmptyAccumulators ==
  /\ menu = "json" /\ pc # "idle" =>
       /\ issued # <<>> => issued[1] = Str(<<"1">>)
       /\ globalIdCounter = Len(issued) + 1
       /\ Len(entityIds) = Len(issued)
       /\ Range(entityIds) = Range(issued)
       /\ \A n \in 1..Len(relationships) :
            {relationships[n].sourceTableId, relationships[n].sourceFieldId,
             relationships[n].targetTableId, relationships[n].targetFieldId}
              \subseteq Range(issued)
       /\ \A k \in DOMAIN tableMap :
            /\ tableMap[k].id \in Range(issued)
            /\ \A f \in DOMAIN tableMap[k].fields :
                 tableMap[k].fields[f] \in Range(issued)
  /\ menu = "dbml" /\ pc # "idle" =>
       /\ \A n \in 1..Len(dbTables) :
            \E x \in 1..Len(ss) : dbTables[n].key \in firstCells(ss[x])
       /\ \A n \in 1..Len(enumsMap) :
            /\ enumsSheetIndex # 0
            /\ \E c \in firstCells(ss[enumsSheetIndex]) :
                 enumsMap[n].key = sanitizeEnumName(c)
  /\ ( /\ pc \in {"done", "aborted"}
       /\ previous # <<>>
       /\ previous[1].ss = ss )
     => snapshot = previous[1]

\* C11 witness: a second JSON run on the input of the first has finished,
\* with tables, an area and a relationship in its output
C11_Witness ==
  /\ runNo = 2
  /\ pc = "done"
  /\ menu = "json"
  /\ previous # <<>>
  /\ previous[1].ss = ss
  /\ previous[1].pc = "done"
  /\ tables # <<>>
  /\ areas # <<>>
  /\ relationships # <<>>

\* the tables a table sheet describes: a filled row with text in its first
\* cell that is not a header row starts a table; the rows after it with text
\* in their first cell that are not header rows are its fields
RECURSIVE sheetTables(_, _, _)
sheetTables(schema, rows, acc) ==
  IF rows = <<>> THEN acc
  ELSE LET r == Head(rows)
           text == trim(JsString(Cell(r.cells, 0)))
       IN  IF text = <<>> \/ isHeaderRow(r.cells)
           THEN sheetTables(schema, Tail(rows), acc)
           ELSE IF r.bg # White
           THEN sheetTables(schema, Tail(rows),
                            Append(acc, [schema |-> schema, name |-> text,
                                         fields |-> <<>>]))
           ELSE IF acc = <<>> THEN sheetTables(schema, Tail(rows), acc)
           ELSE sheetTables(schema, Tail(rows),
                            [acc EXCEPT ![Len(acc)].fields =
                               Append(@, JsString(Cell(r.cells, 0)))])

\* the tables of every table sheet the exporter scans, in tab order
RECURSIVE scannedTables(_)
scannedTables(sheets) ==
  IF sheets = <<>> THEN <<>>
  ELSE (IF ~isEnumSheet(Head(sheets)) /\ Head(sheets).tabColor # <<>>
        THEN sheetTables(Head(sheets).name, Head(sheets).data, <<>>)
        ELSE <<>>)
       \o scannedTables(Tail(sheets))

\* C12: in the output of a JSON export every table-start row has given one
\* table, in scan order, whose fields are the non-header rows with text in
\* their first cell up to the next table-start row or the end of the sheet,
\* in row order; a table without field rows is there too; and a table has a
\* primary-key index exactly when one of its fields is a primary key.
C12_OneTablePerStartRow ==
  pc = "done" /\ menu = "json" =>
    /\ [n \in 1..Len(output[1].tables) |->
          [schema |-> output[1].tables[n].schema,
           name |-> output[1].tables[n].name,
           fields |-> [m \in 1..Len(output[1].tables[n].fields) |->
                         output[1].tables[n].fields[m].name]]]
       = scannedTables(ss)
    /\ \A n \in 1..Len(output[1].tables) :
         LET t == output[1].tables[n]
             pk == {m \in 1..Len(t.fields) : t.fields[m].primaryKey}
         IN  /\ (t.indexes # <<>>) = (pk # {})
             /\ Len(t.indexes) <= 1
             /\ \A x \in 1..Len(t.indexes) :
                  /\ t.indexes[x].isPrimaryKey
                  /\ Range(t.indexes[x].fieldIds) = {t.fields[m].id : m \in pk}

\* C12 witness: a finished export whose output has a table without fields, a
\* table with a primary-key index and a table with fields but no primary key
C12_Witness ==
  /\ pc = "done"
  /\ menu = "json"
  /\ \E n \in 1..Len(output[1].tables) : output[1].tables[n].fields = <<>>
  /\ \E n \in 1..Len(output[1].tables) : output[1].tables[n].indexes # <<>>
  /\ \E n \in 1..Len(output[1].tables) :
       output[1].tables[n].fields # <<>> /\ output[1].tables[n].indexes = <<>>

====
